---- MODULE Spec2Model ----
(***************************************************************************)
(* The data-access layer of the kingdoms / clans / army-members service    *)
(* (backend/src/dal.py) over the two MongoDB collections "kingdoms" and    *)
(* "clans".  Every KingdomDAL method is translated statement by statement: *)
(* the store operation it awaits (with the driver's matched / modified     *)
(* counts), then the Python that runs on the reply, including the places   *)
(* where that Python raises.  A request is accepted and runs up to its     *)
(* store round trip in one step; a method that awaits a second round trip  *)
(* has a second step; the reply is delivered by Respond.                   *)
(*                                                                         *)
(* dal.py annotates add_armymember, update_armymember and others with the  *)
(* name ArmyMember, which the module never defines.  An interpreter that   *)
(* evaluates annotations when the class body runs (CPython before 3.14)    *)
(* fails to import the module, and then no method can be called at all; one*)
(* that defers them (PEP 649) imports it.  Both builds are initial states. *)
(***************************************************************************)
EXTENDS Integers, Sequences, FiniteSets, TLC

\* Number of ObjectIds the store and the DAL may generate in one run.
MaxIds == 3

\* Request slots (asyncio tasks serving HTTP requests).
Procs == {1, 2}
SeqProcs == {1}

VARIABLES
    imported,     \* whether "import dal" succeeded
    kingdoms,     \* collection "kingdoms", in natural (insertion) order
    clans,        \* collection "clans", in natural (insertion) order
    nextId,       \* the next ObjectId to be generated
    req,          \* per request slot: position, method, arguments, result
    addReturned,  \* Member ids that an add_armymember reply has carried
    removedTrue   \* Member ids named by a remove_armymember that replied true

vars == <<imported, kingdoms, clans, nextId, req, addReturned, removedTrue>>

-----------------------------------------------------------------------------
(* Python values *)

\* str(ObjectId): the hex string of an identifier.
Str(oid) == <<"hex", oid>>
\* ObjectId(<str>): parse the hex string.
OidFromStr(s) == s[2]
\* ObjectId(<ObjectId>): a copy.
OidCopy(oid) == oid

\* An Optional[str]: <<>> is None, <<s>> is the string s.
PyNone == <<>>
Some(v) == <<v>>
\* Python truthiness of an Optional[str]: None and "" are falsy.
Truthy(x) == x # PyNone /\ x[1] # ""

\* The outcome of a coroutine: it returned a value, returned None, or raised.
Ret(v) == [kind |-> "return", exc |-> "", val |-> <<v>>]
RetNone == [kind |-> "return", exc |-> "", val |-> <<>>]
Raise(e) == [kind |-> "raise", exc |-> e, val |-> <<>>]

\* Inputs.
KingdomNames == {"Westeros"}
ClanNames == {"Stark"}
Descriptions == {"north"}
NewNames == {PyNone, Some(""), Some("Lannister")}
NewDescriptions == {PyNone, Some(""), Some("west")}
Times == {1, 2}
AddInputs == {[nickname |-> "jon", email |-> "jon@wall", password |-> "ghost", rank |-> "lord"]}
UpdateA ==
    [nickname |-> "arya", email |-> "a@w", password |-> "needle", rank |-> "none",
     status |-> "active", registration_date |-> 7, last_login |-> 8,
     description |-> "no one", phone |-> "555",
     image_access |-> TRUE, info_access |-> TRUE,
     manage_access |-> TRUE, media_access |-> TRUE]
UpdateB ==
    [nickname |-> "jon", email |-> "jon@wall", password |-> "ghost", rank |-> "lord",
     status |-> "", registration_date |-> 1, last_login |-> 1,
     description |-> "", phone |-> "",
     image_access |-> FALSE, info_access |-> FALSE,
     manage_access |-> FALSE, media_access |-> FALSE]
UpdateInputs == {UpdateA, UpdateB}

-----------------------------------------------------------------------------
(* The store: pymongo / motor collection operations *)

\* collection.find_one({"_id": id}): <<doc>> or <<>> (None).
FindOne(coll, id) ==
    LET hits == SelectSeq(coll, LAMBDA d : d._id = id)
    IN  IF hits = <<>> THEN <<>> ELSE <<hits[1]>>

\* collection.insert_one(doc).
InsertOne(coll, doc) == Append(coll, doc)

\* collection.delete_one({"_id": id}).
DeleteOne(coll, id) ==
    LET rest == SelectSeq(coll, LAMBDA d : d._id # id)
    IN  [coll |-> rest, deleted_count |-> Len(coll) - Len(rest)]

\* The reply of update_one: the collection after it, matched and modified counts.
\* modified_count counts documents the update actually changed.
UpdateReply(coll, after, id) ==
    [coll |-> after,
     matched_count |-> IF FindOne(coll, id) # <<>> THEN 1 ELSE 0,
     modified_count |-> IF after # coll THEN 1 ELSE 0]

\* update_one({"_id": id}, {"$push": {"armyMembers": m}}, upsert=False).
UpdateOnePush(coll, id, m) ==
    UpdateReply(coll,
        [i \in 1..Len(coll) |->
            IF coll[i]._id = id
            THEN [coll[i] EXCEPT !.armyMembers = Append(@, m)]
            ELSE coll[i]],
        id)

\* update_one({"_id": id}, {"$pull": {"armyMembers": {"_id": mid}}}).
UpdateOnePull(coll, id, mid) ==
    UpdateReply(coll,
        [i \in 1..Len(coll) |->
            IF coll[i]._id = id
            THEN [coll[i] EXCEPT !.armyMembers = SelectSeq(@, LAMBDA m : m._id # mid)]
            ELSE coll[i]],
        id)

\* The 13 "$set" paths of update_armymember applied to one array element.
SetMemberFields(m, u) ==
    [m EXCEPT !.nickname = u.nickname,
              !.email = u.email,
              !.password = u.password,
              !.rank = u.rank,
              !.status = u.status,
              !.registrationDate = u.registration_date,
              !.lastLogin = u.last_login,
              !.description = u.description,
              !.phone = u.phone,
              !.imageAccess = u.image_access,
              !.infoAccess = u.info_access,
              !.manageAccess = u.manage_access,
              !.mediaAccess = u.media_access]

\* update_one({"_id": id}, {"$set": {"armyMembers.$[member].<f>": ...}},
\*            array_filters=[{"member._id": mid}]).
UpdateOneSetMember(coll, id, mid, u) ==
    UpdateReply(coll,
        [i \in 1..Len(coll) |->
            IF coll[i]._id = id
            THEN [coll[i] EXCEPT !.armyMembers =
                    [j \in 1..Len(@) |->
                        IF @[j]._id = mid THEN SetMemberFields(@[j], u) ELSE @[j]]]
            ELSE coll[i]],
        id)

\* "$set" of a dict of top-level fields on one Clan document; the dict is a set
\* of <<field, value>> pairs over clanName and description.
SetClanFields(d, fields) ==
    LET d1 == IF \E f \in fields : f[1] = "clanName"
              THEN [d EXCEPT !.clanName = (CHOOSE f \in fields : f[1] = "clanName")[2]]
              ELSE d
    IN  IF \E f \in fields : f[1] = "description"
        THEN [d1 EXCEPT !.description = (CHOOSE f \in fields : f[1] = "description")[2]]
        ELSE d1

\* find_one_and_update({"_id": id}, {"$set": fields}, return_document=AFTER):
\* the collection after it and the document after the update (<<>> when none matched).
FindOneAndUpdateSet(coll, id, fields) ==
    LET after == [i \in 1..Len(coll) |->
                    IF coll[i]._id = id THEN SetClanFields(coll[i], fields) ELSE coll[i]]
    IN  [coll |-> after, doc |-> FindOne(after, id)]

-----------------------------------------------------------------------------
(* dal.py: the models' from_doc and the hydration of a Clan *)

\* KingdomSummary.from_doc: "clanCount=doc[clanCount]" reads the name clanCount,
\* which nothing defines.
KingdomSummaryFromDoc(doc) == Raise("NameError")

\* ArmyMember.from_doc(...): the module defines Member, never ArmyMember.
ArmyMemberFromDoc(doc) == Raise("NameError")

\* clan = Clan.from_doc(doc); clan.armyMembers = [ArmyMember.from_doc(m).dict()
\* for m in doc.get("armyMembers", [])]; ... clan.dict().
\* The comprehension evaluates ArmyMember for the first element; with no element
\* the assignment sets a field the pydantic model Clan does not declare.
HydrateClan(doc) ==
    IF doc.armyMembers # <<>>
    THEN ArmyMemberFromDoc(doc.armyMembers[1])
    ELSE Raise("ValueError")

-----------------------------------------------------------------------------
(* dal.py: KingdomDAL *)

\* list_kingdoms: the first document of the cursor goes to KingdomSummary.from_doc.
ListKingdoms(kg, cl) ==
    IF kg = <<>> THEN Ret(<<>>) ELSE KingdomSummaryFromDoc(kg[1])

\* create_kingdom.
CreateKingdom(kg, oid, name) ==
    [kingdoms |-> InsertOne(kg, [_id |-> oid, name |-> name]),
     result |-> Ret(Str(oid))]

\* list_clans.
ListClans(cl, kingdom_id) ==
    LET docs == SelectSeq(cl, LAMBDA d : d.kingdomId = OidCopy(kingdom_id))
    IN  IF docs = <<>> THEN Ret(<<>>) ELSE HydrateClan(docs[1])

\* get_kingdom after its find_one found doc: list_clans, then the two loops over
\* its (empty) result, then doc["clans"] = [...].
GetKingdomClans(cl, doc) ==
    LET got == ListClans(cl, doc._id)
    IN  IF got.kind = "raise" THEN got
        ELSE Ret([_id |-> doc._id, name |-> doc.name, clans |-> got.val[1]])

\* delete_kingdom.
DeleteKingdom(kg, id) ==
    LET result == DeleteOne(kg, OidCopy(id))
    IN  [kingdoms |-> result.coll, result |-> Ret(result.deleted_count = 1)]

\* create_clan up to its insert_one.
CreateClanInsert(cl, oid, kingdom_id, clan_name, description) ==
    InsertOne(cl, [_id |-> oid,
                   kingdomId |-> OidCopy(kingdom_id),
                   clanName |-> clan_name,
                   description |-> description,
                   armyMembers |-> <<>>])

\* get_clan.
GetClan(cl, id) ==
    LET doc == FindOne(cl, id)
    IN  IF doc # <<>> THEN HydrateClan(doc[1]) ELSE RetNone

\* create_clan after its insert_one: Clan.from_doc(await self.get_clan(str(id))).
\* Clan.from_doc subscripts its argument with "_id".
CreateClanReread(cl, inserted_id) ==
    LET got == GetClan(cl, OidFromStr(Str(inserted_id)))
    IN  IF got.kind = "raise" THEN got
        ELSE IF got.val = <<>> THEN Raise("TypeError")
        ELSE Raise("KeyError")

\* delete_clan.
DeleteClan(cl, id) ==
    LET result == DeleteOne(cl, OidCopy(id))
    IN  [clans |-> result.coll, result |-> Ret(result.deleted_count = 1)]

\* NewMember with memberOf seeded with the Member's own identifier.
NewMemberOwnId(oid, clan_id, in, t1, t2) ==
    [_id |-> oid,
     nickname |-> in.nickname,
     email |-> in.email,
     password |-> in.password,
     rank |-> in.rank,
     memberOf |-> <<Str(oid)>>,
     status |-> "",
     registrationDate |-> t1,
     lastLogin |-> t2,
     description |-> "",
     phone |-> "",
     imageAccess |-> FALSE,
     infoAccess |-> FALSE,
     manageAccess |-> FALSE,
     mediaAccess |-> FALSE]

\* The embedded document add_armymember builds.
NewMember(oid, clan_id, in, t1, t2) ==
    [_id |-> oid,
     nickname |-> in.nickname,
     email |-> in.email,
     password |-> in.password,
     rank |-> in.rank,
     memberOf |-> <<Str(clan_id)>>,
     status |-> "",
     registrationDate |-> t1,
     lastLogin |-> t2,
     description |-> "",
     phone |-> "",
     imageAccess |-> FALSE,
     infoAccess |-> FALSE,
     manageAccess |-> FALSE,
     mediaAccess |-> FALSE]

\* add_armymember.
AddArmymember(cl, oid, clan_id, in, t1, t2) ==
    LET new_member == NewMember(oid, clan_id, in, t1, t2)
        response == UpdateOnePush(cl, OidCopy(clan_id), new_member)
    IN  [clans |-> response.coll,
         result |-> IF response.modified_count > 0
                    THEN ArmyMemberFromDoc(new_member)
                    ELSE RetNone]

\* remove_armymember answering with matched_count in place of modified_count.
RemoveArmymemberMatched(cl, clan_id, member_id) ==
    LET result == UpdateOnePull(cl, OidCopy(clan_id), OidFromStr(member_id))
    IN  [clans |-> result.coll, result |-> Ret(result.matched_count > 0)]

\* remove_armymember.
RemoveArmymember(cl, clan_id, member_id) ==
    LET result == UpdateOnePull(cl, OidCopy(clan_id), OidFromStr(member_id))
    IN  [clans |-> result.coll, result |-> Ret(result.modified_count > 0)]

\* get_armymember: find() returns a motor cursor, and a cursor has no aggregate.
GetArmymember(cl, clan_id, member_id) == Raise("AttributeError")

\* update_armymember.
UpdateArmymember(cl, clan_id, member_id, u) ==
    LET response == UpdateOneSetMember(cl, OidCopy(clan_id), OidFromStr(member_id), u)
    IN  [clans |-> response.coll,
         result |-> IF response.modified_count > 0
                    THEN LET member == GetArmymember(response.coll, clan_id, member_id)
                         IN  IF member.kind = "raise" THEN member
                             ELSE ArmyMemberFromDoc(member.val)
                    ELSE RetNone]

\* update_clan.  A server older than MongoDB 5.0 rejects an empty "$set"
\* (emptySetOk = FALSE); a newer one accepts it as a no-op.
UpdateClan(cl, clan_id, name, description, emptySetOk) ==
    LET update_fields ==
            {<<"clanName", name[1]>> : x \in IF Truthy(name) THEN {1} ELSE {}}
            \cup {<<"description", description[1]>> :
                    x \in IF description # PyNone THEN {1} ELSE {}}
        result == FindOneAndUpdateSet(cl, OidCopy(clan_id), update_fields)
    IN  IF update_fields = {} /\ ~emptySetOk
        THEN [clans |-> cl, result |-> Raise("OperationFailure")]
        ELSE [clans |-> result.coll,
              result |-> IF result.doc # <<>> THEN HydrateClan(result.doc[1]) ELSE RetNone]

-----------------------------------------------------------------------------
(* Requests *)

IdleReq ==
    [pc |-> "idle", op |-> "", id |-> 0, member_id |-> Str(0),
     name |-> PyNone, description |-> PyNone, input |-> <<>>,
     doc |-> <<>>, result |-> RetNone]

\* Identifiers a client can send: 0 stands for every well-formed identifier that
\* no document of the collection (no element of any array) has.
KingdomIds == {kingdoms[i]._id : i \in 1..Len(kingdoms)} \cup {0}
ClanIds == {clans[i]._id : i \in 1..Len(clans)} \cup {0}
MemberIds ==
    {clans[i].armyMembers[j]._id : <<i, j>> \in
        {x \in (1..Len(clans)) \X (1..MaxIds) : x[2] <= Len(clans[x[1]].armyMembers)}}
    \cup {0}

\* The request in slot p has run to its reply.
Done(p, r, res) ==
    req' = [req EXCEPT ![p] = [r EXCEPT !.pc = "done", !.result = res]]

Init ==
    /\ imported \in BOOLEAN
    /\ kingdoms = <<>>
    /\ clans = <<>>
    /\ nextId = 1
    /\ req = [p \in Procs |-> IdleReq]
    /\ addReturned = {}
    /\ removedTrue = {}

list_kingdoms(p) ==
    /\ imported
    /\ req[p].pc = "idle"
    /\ Done(p, [IdleReq EXCEPT !.op = "list_kingdoms"], ListKingdoms(kingdoms, clans))
    /\ UNCHANGED <<imported, kingdoms, clans, nextId, addReturned, removedTrue>>

create_kingdom(p) ==
    /\ imported
    /\ req[p].pc = "idle"
    /\ nextId <= MaxIds
    /\ \E name \in KingdomNames :
        LET out == CreateKingdom(kingdoms, nextId, name)
        IN  /\ kingdoms' = out.kingdoms
            /\ Done(p, [IdleReq EXCEPT !.op = "create_kingdom", !.name = Some(name)],
                    out.result)
    /\ nextId' = nextId + 1
    /\ UNCHANGED <<imported, clans, addReturned, removedTrue>>

\* get_kingdom: the find_one on kingdoms.
get_kingdom(p) ==
    /\ imported
    /\ req[p].pc = "idle"
    /\ \E id \in KingdomIds :
        LET r == [IdleReq EXCEPT !.op = "get_kingdom", !.id = id]
            doc == FindOne(kingdoms, OidCopy(id))
        IN  IF doc # <<>>
            THEN req' = [req EXCEPT ![p] = [r EXCEPT !.pc = "list_clans", !.doc = doc]]
            ELSE Done(p, r, RetNone)
    /\ UNCHANGED <<imported, kingdoms, clans, nextId, addReturned, removedTrue>>

\* get_kingdom: the find on clans and the rest of the method.
get_kingdom_clans(p) ==
    /\ imported
    /\ req[p].pc = "list_clans"
    /\ Done(p, req[p], GetKingdomClans(clans, req[p].doc[1]))
    /\ UNCHANGED <<imported, kingdoms, clans, nextId, addReturned, removedTrue>>

delete_kingdom(p) ==
    /\ imported
    /\ req[p].pc = "idle"
    /\ \E id \in KingdomIds :
        LET out == DeleteKingdom(kingdoms, id)
        IN  /\ kingdoms' = out.kingdoms
            /\ Done(p, [IdleReq EXCEPT !.op = "delete_kingdom", !.id = id], out.result)
    /\ UNCHANGED <<imported, clans, nextId, addReturned, removedTrue>>

\* create_clan: ObjectId() and the insert_one.
create_clan(p) ==
    /\ imported
    /\ req[p].pc = "idle"
    /\ nextId <= MaxIds
    /\ \E kingdom_id \in KingdomIds, clan_name \in ClanNames, description \in Descriptions :
        /\ clans' = CreateClanInsert(clans, nextId, kingdom_id, clan_name, description)
        /\ req' = [req EXCEPT ![p] =
                    [IdleReq EXCEPT !.pc = "get_clan", !.op = "create_clan",
                                    !.id = kingdom_id, !.name = Some(clan_name),
                                    !.description = Some(description),
                                    !.doc = <<nextId>>]]
    /\ nextId' = nextId + 1
    /\ UNCHANGED <<imported, kingdoms, addReturned, removedTrue>>

\* create_clan: the get_clan of the inserted identifier and Clan.from_doc.
create_clan_reread(p) ==
    /\ imported
    /\ req[p].pc = "get_clan"
    /\ Done(p, req[p], CreateClanReread(clans, req[p].doc[1]))
    /\ UNCHANGED <<imported, kingdoms, clans, nextId, addReturned, removedTrue>>

get_clan(p) ==
    /\ imported
    /\ req[p].pc = "idle"
    /\ \E id \in ClanIds :
        Done(p, [IdleReq EXCEPT !.op = "get_clan", !.id = id],
             GetClan(clans, OidFromStr(Str(id))))
    /\ UNCHANGED <<imported, kingdoms, clans, nextId, addReturned, removedTrue>>

delete_clan(p) ==
    /\ imported
    /\ req[p].pc = "idle"
    /\ \E id \in ClanIds :
        LET out == DeleteClan(clans, id)
        IN  /\ clans' = out.clans
            /\ Done(p, [IdleReq EXCEPT !.op = "delete_clan", !.id = id], out.result)
    /\ UNCHANGED <<imported, kingdoms, nextId, addReturned, removedTrue>>

list_clans(p) ==
    /\ imported
    /\ req[p].pc = "idle"
    /\ \E kingdom_id \in KingdomIds :
        Done(p, [IdleReq EXCEPT !.op = "list_clans", !.id = kingdom_id],
             ListClans(clans, kingdom_id))
    /\ UNCHANGED <<imported, kingdoms, clans, nextId, addReturned, removedTrue>>

update_clan(p) ==
    /\ imported
    /\ req[p].pc = "idle"
    /\ \E clan_id \in ClanIds, name \in NewNames, description \in NewDescriptions,
          emptySetOk \in BOOLEAN :
        LET out == UpdateClan(clans, clan_id, name, description, emptySetOk)
        IN  /\ clans' = out.clans
            /\ Done(p, [IdleReq EXCEPT !.op = "update_clan", !.id = clan_id,
                                       !.name = name, !.description = description],
                    out.result)
    /\ UNCHANGED <<imported, kingdoms, nextId, addReturned, removedTrue>>

\* add_armymember: ObjectId(), the two datetime.now(), the update_one.
add_armymember(p) ==
    /\ imported
    /\ req[p].pc = "idle"
    /\ nextId <= MaxIds
    /\ \E clan_id \in ClanIds, in \in AddInputs, t1 \in Times, t2 \in Times :
        /\ t1 <= t2
        /\ LET out == AddArmymember(clans, nextId, clan_id, in, t1, t2)
           IN  /\ clans' = out.clans
               /\ Done(p, [IdleReq EXCEPT !.op = "add_armymember", !.id = clan_id,
                                          !.member_id = Str(nextId), !.input = in],
                       out.result)
    /\ nextId' = nextId + 1
    /\ UNCHANGED <<imported, kingdoms, addReturned, removedTrue>>

remove_armymember(p) ==
    /\ imported
    /\ req[p].pc = "idle"
    /\ \E clan_id \in ClanIds, mid \in MemberIds :
        LET out == RemoveArmymember(clans, clan_id, Str(mid))
        IN  /\ clans' = out.clans
            /\ Done(p, [IdleReq EXCEPT !.op = "remove_armymember", !.id = clan_id,
                                       !.member_id = Str(mid)],
                    out.result)
    /\ UNCHANGED <<imported, kingdoms, nextId, addReturned, removedTrue>>

update_armymember(p) ==
    /\ imported
    /\ req[p].pc = "idle"
    /\ \E clan_id \in ClanIds, mid \in MemberIds, u \in UpdateInputs :
        LET out == UpdateArmymember(clans, clan_id, Str(mid), u)
        IN  /\ clans' = out.clans
            /\ Done(p, [IdleReq EXCEPT !.op = "update_armymember", !.id = clan_id,
                                       !.member_id = Str(mid), !.input = u],
                    out.result)
    /\ UNCHANGED <<imported, kingdoms, nextId, addReturned, removedTrue>>

get_armymember(p) ==
    /\ imported
    /\ req[p].pc = "idle"
    /\ \E clan_id \in ClanIds, mid \in MemberIds :
        Done(p, [IdleReq EXCEPT !.op = "get_armymember", !.id = clan_id,
                                !.member_id = Str(mid)],
             GetArmymember(clans, clan_id, Str(mid)))
    /\ UNCHANGED <<imported, kingdoms, clans, nextId, addReturned, removedTrue>>

\* The reply reaches the client: what create_armymember and delete_armymember
\* (server.py) hand back is recorded.
Respond(p) ==
    /\ imported
    /\ req[p].pc = "done"
    /\ addReturned' =
        IF req[p].op = "add_armymember" /\ req[p].result.kind = "return"
           /\ req[p].result.val # <<>>
        THEN addReturned \cup {[clan |-> Str(req[p].id), id |-> req[p].result.val[1].id]}
        ELSE addReturned
    /\ removedTrue' =
        IF req[p].op = "remove_armymember" /\ req[p].result = Ret(TRUE)
        THEN removedTrue \cup {req[p].member_id}
        ELSE removedTrue
    /\ req' = [req EXCEPT ![p] = IdleReq]
    /\ UNCHANGED <<imported, kingdoms, clans, nextId>>

Step(p) ==
    \/ list_kingdoms(p)
    \/ create_kingdom(p)
    \/ get_kingdom(p)
    \/ get_kingdom_clans(p)
    \/ delete_kingdom(p)
    \/ create_clan(p)
    \/ create_clan_reread(p)
    \/ get_clan(p)
    \/ delete_clan(p)
    \/ list_clans(p)
    \/ update_clan(p)
    \/ add_armymember(p)
    \/ remove_armymember(p)
    \/ update_armymember(p)
    \/ get_armymember(p)
    \/ Respond(p)

\* One request at a time.
Next == \E p \in SeqProcs : Step(p)
Spec == Init /\ [][Next]_vars

\* Requests on Clans and their Member arrays, interleaved at every store round trip.
StepConc(p) ==
    \/ create_clan(p)
    \/ create_clan_reread(p)
    \/ add_armymember(p)
    \/ remove_armymember(p)
    \/ Respond(p)

NextConc == \E p \in Procs : StepConc(p)
SpecConc == Init /\ [][NextConc]_vars

-----------------------------------------------------------------------------
(* Properties *)

\* Slot p accepts a call of method op and runs it to its reply in this step.
Ran(p, op) == req[p].pc = "idle" /\ req'[p].pc = "done" /\ req'[p].op = op
\* Slot p holds the reply of a call of method op.
Replied(p, op) == req[p].pc = "done" /\ req[p].op = op

\* The number of Clan documents whose kingdomId is kid.
ClanCount(kid) == Cardinality({i \in 1..Len(clans) : clans[i].kingdomId = kid})
\* The positions <<i, j>> of the array elements with identifier mid in Clan cid.
Places(cl, cid, mid) ==
    {x \in (1..Len(cl)) \X (1..MaxIds) :
        /\ cl[x[1]]._id = cid
        /\ x[2] <= Len(cl[x[1]].armyMembers)
        /\ cl[x[1]].armyMembers[x[2]]._id = mid}
\* All positions of array elements.
AllPlaces(cl) ==
    {x \in (1..Len(cl)) \X (1..MaxIds) : x[2] <= Len(cl[x[1]].armyMembers)}

\* C1: with no other request in flight, list_kingdoms returns one summary per
\* stored Kingdom, in store order, whose clan_count is the number of Clan
\* documents with that kingdomId (0 for a Kingdom with no Clan).
C1_ListKingdomsCounts ==
    \A p \in SeqProcs :
        Replied(p, "list_kingdoms") =>
            /\ req[p].result.kind = "return"
            /\ req[p].result.val # <<>>
            /\ Len(req[p].result.val[1]) = Len(kingdoms)
            /\ \A i \in 1..Len(kingdoms) :
                /\ req[p].result.val[1][i].id = Str(kingdoms[i]._id)
                /\ req[p].result.val[1][i].clan_count = ClanCount(kingdoms[i]._id)

\* C2: get_kingdom of an existing Kingdom with N Clan documents returns a result
\* with clan_count = N and an embedded clan list of length N.
C2_GetKingdomCounts ==
    \A p \in SeqProcs :
        (Replied(p, "get_kingdom") /\ FindOne(kingdoms, req[p].id) # <<>>) =>
            /\ req[p].result.kind = "return"
            /\ req[p].result.val # <<>>
            /\ "clan_count" \in DOMAIN req[p].result.val[1]
            /\ req[p].result.val[1].clan_count = ClanCount(req[p].id)
            /\ Len(req[p].result.val[1].clans) = ClanCount(req[p].id)

\* C3: delete_kingdom leaves the clans collection as it was, and get_clan of a
\* Clan whose Kingdom has been deleted returns that Clan.
C3_DeleteKingdomKeepsClans ==
    [][\A p \in SeqProcs :
        /\ Ran(p, "delete_kingdom") => clans' = clans
        /\ Ran(p, "get_clan") =>
            \A i \in 1..Len(clans) :
                (/\ clans[i]._id = req'[p].id
                 /\ clans[i].kingdomId # 0
                 /\ FindOne(kingdoms, clans[i].kingdomId) = <<>>) =>
                    /\ req'[p].result.kind = "return"
                    /\ req'[p].result.val # <<>>
                    /\ req'[p].result.val[1].id = Str(clans[i]._id)
                    /\ req'[p].result.val[1].name = clans[i].clanName
                    /\ req'[p].result.val[1].description = clans[i].description
                    /\ req'[p].result.val[1].armyMembers = clans[i].armyMembers
      ]_vars

\* C4: remove_armymember returns true exactly when the Clan has an array element
\* with the given identifier, and then that element and nothing else is removed;
\* otherwise (also when the Clan does not exist) no document changes.
C4_RemoveArmymember ==
    [][\A p \in SeqProcs :
        Ran(p, "remove_armymember") =>
            LET cid == req'[p].id
                mid == OidFromStr(req'[p].member_id)
                present == Places(clans, cid, mid) # {}
            IN  /\ req'[p].result = Ret(present)
                /\ kingdoms' = kingdoms
                /\ ~present => clans' = clans
                /\ present =>
                    /\ Len(clans') = Len(clans)
                    /\ Places(clans', cid, mid) = {}
                    /\ \A i \in 1..Len(clans) :
                        IF clans[i]._id = cid
                        THEN /\ Len(clans'[i].armyMembers) = Len(clans[i].armyMembers) - 1
                             /\ [clans'[i] EXCEPT !.armyMembers = <<>>]
                                  = [clans[i] EXCEPT !.armyMembers = <<>>]
                             /\ \A j \in 1..Len(clans[i].armyMembers) :
                                  clans[i].armyMembers[j]._id # mid =>
                                    \E k \in 1..Len(clans'[i].armyMembers) :
                                      clans'[i].armyMembers[k] = clans[i].armyMembers[j]
                        ELSE clans'[i] = clans[i]
      ]_vars

\* C4 witness: a remove_armymember has replied false for a Clan that exists and
\* has Members, none with the given identifier.
C4_Witness ==
    \E p \in SeqProcs :
        /\ Replied(p, "remove_armymember")
        /\ req[p].result = Ret(FALSE)
        /\ \E i \in 1..Len(clans) :
            clans[i]._id = req[p].id /\ clans[i].armyMembers # <<>>

\* C5: update_clan of an existing Clan with name "" keeps the stored name, sets
\* the description when one is supplied ("" included) and keeps it otherwise,
\* and returns the document as it is after the update.
C5_UpdateClanEmptyName ==
    [][\A p \in SeqProcs :
        (Ran(p, "update_clan") /\ req'[p].name = Some("")) =>
            \A i \in 1..Len(clans) :
                clans[i]._id = req'[p].id =>
                    /\ clans'[i].clanName = clans[i].clanName
                    /\ clans'[i].description =
                        IF req'[p].description # PyNone
                        THEN req'[p].description[1]
                        ELSE clans[i].description
                    /\ req'[p].result.kind = "return"
                    /\ req'[p].result.val # <<>>
                    /\ req'[p].result.val[1].id = Str(clans'[i]._id)
                    /\ req'[p].result.val[1].name = clans'[i].clanName
                    /\ req'[p].result.val[1].description = clans'[i].description
      ]_vars

\* The 13 mutable fields of the stored element m are the supplied values u.
Holds13(m, u) ==
    /\ m.nickname = u.nickname
    /\ m.email = u.email
    /\ m.password = u.password
    /\ m.rank = u.rank
    /\ m.status = u.status
    /\ m.registrationDate = u.registration_date
    /\ m.lastLogin = u.last_login
    /\ m.description = u.description
    /\ m.phone = u.phone
    /\ m.imageAccess = u.image_access
    /\ m.infoAccess = u.info_access
    /\ m.manageAccess = u.manage_access
    /\ m.mediaAccess = u.media_access

\* C6: update_armymember sets the 13 fields of the one matching array element in
\* one write and changes nothing else, and get_armymember of an embedded Member
\* returns the element as stored (so, after an update, the 13 supplied values).
C6_UpdateThenGetArmymember ==
    [][\A p \in SeqProcs :
        /\ Ran(p, "update_armymember") =>
            /\ kingdoms' = kingdoms
            /\ Len(clans') = Len(clans)
            /\ AllPlaces(clans') = AllPlaces(clans)
            /\ \A x \in AllPlaces(clans) :
                IF x \in Places(clans, req'[p].id, OidFromStr(req'[p].member_id))
                THEN /\ Holds13(clans'[x[1]].armyMembers[x[2]], req'[p].input)
                     /\ clans'[x[1]].armyMembers[x[2]]._id = clans[x[1]].armyMembers[x[2]]._id
                ELSE clans'[x[1]].armyMembers[x[2]] = clans[x[1]].armyMembers[x[2]]
        /\ Ran(p, "get_armymember") =>
            \A x \in Places(clans, req'[p].id, OidFromStr(req'[p].member_id)) :
                /\ req'[p].result.kind = "return"
                /\ req'[p].result.val = <<clans[x[1]].armyMembers[x[2]]>>
      ]_vars

\* C7: update_armymember returns the re-read Member whenever an element of the
\* Clan's array has the given identifier (also when the supplied values are the
\* stored ones), and returns nothing only when no element matched.
C7_UpdateArmymemberReturn ==
    \A p \in SeqProcs :
        Replied(p, "update_armymember") =>
            LET hit == Places(clans, req[p].id, OidFromStr(req[p].member_id))
            IN  /\ req[p].result.kind = "return"
                /\ hit = {} => req[p].result.val = <<>>
                /\ \A x \in hit :
                    /\ req[p].result.val # <<>>
                    /\ req[p].result.val[1].id = Str(clans[x[1]].armyMembers[x[2]]._id)
                    /\ Holds13(clans[x[1]].armyMembers[x[2]], req[p].input)

\* C8: add_armymember on an existing Clan appends one element with a fresh
\* identifier and member_of = [clan_id] to the end of that Clan's array and
\* returns it; on an identifier of no Clan it returns nothing and changes no document.
C8_AddArmymember ==
    [][\A p \in SeqProcs :
        Ran(p, "add_armymember") =>
            /\ kingdoms' = kingdoms
            /\ FindOne(clans, req'[p].id) = <<>> =>
                /\ clans' = clans
                /\ req'[p].result = RetNone
            /\ \A i \in 1..Len(clans) :
                clans[i]._id = req'[p].id =>
                    LET new == clans'[i].armyMembers[Len(clans'[i].armyMembers)]
                    IN  /\ Len(clans') = Len(clans)
                        /\ \A k \in 1..Len(clans) : k # i => clans'[k] = clans[k]
                        /\ clans'[i].armyMembers = Append(clans[i].armyMembers, new)
                        /\ \A x \in AllPlaces(clans) :
                            clans[x[1]].armyMembers[x[2]]._id # new._id
                        /\ new.memberOf = <<Str(req'[p].id)>>
                        /\ req'[p].result.kind = "return"
                        /\ req'[p].result.val # <<>>
                        /\ req'[p].result.val[1].id = Str(new._id)
                        /\ req'[p].result.val[1].member_of = new.memberOf
      ]_vars

\* C9: with add_armymember and remove_armymember calls interleaved, once every
\* call has been answered each Clan's array holds exactly the Members that an
\* add returned and that no remove answering true named.
C9_NoLostUpdate ==
    (\A p \in Procs : req[p].pc = "idle") =>
        \A i \in 1..Len(clans) :
            {Str(clans[i].armyMembers[j]._id) : j \in 1..Len(clans[i].armyMembers)}
              = {a.id : a \in {b \in addReturned : b.clan = Str(clans[i]._id)}}
                    \ removedTrue

\* C10: every Member identifier occurs in at most one Clan's array and at most
\* once in it, and every embedded Member's memberOf is the one-element list of
\* the identifier of the Clan that embeds it.
C10_MemberPlacement ==
    \A x \in AllPlaces(clans) :
        /\ clans[x[1]].armyMembers[x[2]].memberOf = <<Str(clans[x[1]]._id)>>
        /\ \A y \in AllPlaces(clans) :
            clans[y[1]].armyMembers[y[2]]._id = clans[x[1]].armyMembers[x[2]]._id
                => y = x

\* C10 witness: two Members are embedded and an update_armymember has rewritten
\* the fields of one of them.
C10_Witness ==
    /\ Cardinality(AllPlaces(clans)) >= 2
    /\ \E p \in SeqProcs :
        /\ Replied(p, "update_armymember")
        /\ \E x \in Places(clans, req[p].id, OidFromStr(req[p].member_id)) :
            /\ req[p].input = UpdateA
            /\ Holds13(clans[x[1]].armyMembers[x[2]], UpdateA)
====
